---- MODULE Spec2Model ----
(***************************************************************************)
(* Model of the confidence scoring engine of the environmental AI analysis *)
(* service (python-services/services/confidence_scorer.py).                *)
(*                                                                         *)
(* Numbers.  Scores, confidences and adjustments are held in hundredths    *)
(* (0.35 is 35).  Values returned by the aggregation operations are exact  *)
(* rationals held as integers in units of 1/ONE, where ONE is a common     *)
(* multiple of every denominator the code can produce (10^4 for the        *)
(* score*confidence blend, and every sum of present weights 30, 35, 65,    *)
(* 70, 100).  The model is therefore exact real arithmetic; IEEE rounding  *)
(* of the Python floats is not modelled.                                   *)
(*                                                                         *)
(* Dynamic typing.  A dictionary value is a pair <<kind, value>>: kind     *)
(* "num" is a number, "missing" an absent key, "str" a non-numeric value.  *)
(* A sub-mapping (turbidity, visibility, ...) is held as the string of the *)
(* one field the scorer reads from it, or "MISSING" (key absent),          *)
(* "NOT_A_MAPPING" (a value without .get) or "NO_FIELD" (a mapping that    *)
(* lacks the field).  A Python call returns [exc, val]: exc is TRUE when   *)
(* the call raises to its caller.                                          *)
(***************************************************************************)
EXTENDS Integers, Sequences, FiniteSets, TLC

VARIABLES np, scoring_weights, confidence_factors, analysis_results,
          op, arg, ret, before, raised, level, report,
          request, pc, image_data, calls, response, frames

vars == <<np, scoring_weights, confidence_factors, analysis_results,
          op, arg, ret, before, raised, level, report,
          request, pc, image_data, calls, response, frames>>

\* the result of the last call of an operation of the scorer
callVars == <<op, arg, ret, before, raised, level, report>>

\* one /analyze request in progress
handlerVars == <<request, pc, image_data, calls, response>>

(***************************************************************************)
(* Bounds of the model and scale of the arithmetic.                        *)
(***************************************************************************)
MaxGrid == 10

ONE == 273000000

HUNDREDTH == ONE \div 100

Categories == {"water_quality", "air_quality", "visual_contamination"}

NumpyModes == {"numpy", "mock"}

Num(v) == <<"num", v>>

Missing == <<"missing", 0>>

NonNumeric == <<"str", 0>>

NotAMapping == <<"notmap", 0>>

IsNum(x) == x[1] = "num"

Min(a, b) == IF a < b THEN a ELSE b

Max(a, b) == IF a > b THEN a ELSE b

(***************************************************************************)
(* ConfidenceScorer.__init__                                               *)
(***************************************************************************)
\* the first index of a non-empty set of indices
FirstOf(S) == CHOOSE x \in S : \A y \in S : x <= y

InitialWeights ==
    [c \in Categories |->
        IF c = "visual_contamination" THEN 30 ELSE 35]

InitialFactors ==
    [high_confidence_threshold |-> 80,
     medium_confidence_threshold |-> 60,
     low_confidence_threshold |-> 40,
     uncertainty_penalty |-> 10]

(***************************************************************************)
(* dict.get(key, default) on a category record                             *)
(***************************************************************************)
GetOr(v, default) == IF v = Missing THEN default ELSE v

\* the known categories present in a result set, as the loops over
\* scoring_weights see them
Present(results) == Categories \cap DOMAIN results

Ok(v) == [exc |-> FALSE, val |-> v]

Raise == [exc |-> TRUE, val |-> 0]

(***************************************************************************)
(* numpy, or the MockNumpy fallback installed when the import fails.       *)
(* MockNumpy.array returns the list itself and MockNumpy.sum the builtin   *)
(* sum; it has no var, and a list supports neither list / float nor        *)
(* list * list, so those expressions raise under the fallback.             *)
(***************************************************************************)
\* sum of the weights of the categories in cats: np.sum(weights)
np_sum(weights, cats) ==
    (IF "water_quality" \in cats THEN weights["water_quality"] ELSE 0)
  + (IF "air_quality" \in cats THEN weights["air_quality"] ELSE 0)
  + (IF "visual_contamination" \in cats
        THEN weights["visual_contamination"] ELSE 0)

\* np.sum(values * (weights / np.sum(weights))) over the categories in cats,
\* in units of 1/ONE; values[c] is in units of 1/unit
WeightedAverage(mode, values, weights, cats, unit) ==
    IF mode = "mock" THEN Raise
    ELSE LET W == np_sum(weights, cats)
             term(c) == IF c \in cats THEN values[c] * weights[c] ELSE 0
         IN  Ok((term("water_quality") + term("air_quality")
                   + term("visual_contamination")) * (ONE \div (unit * W)))

\* variant: the variance is compared with 0.05
VarianceAbove_Twentieth(scores, cats) ==
    LET n == Cardinality(cats)
        s(c) == IF c \in cats THEN scores[c] ELSE 0
        sum == s("water_quality") + s("air_quality")
                 + s("visual_contamination")
        sumsq == s("water_quality") * s("water_quality")
                   + s("air_quality") * s("air_quality")
                   + s("visual_contamination") * s("visual_contamination")
    IN  n * sumsq - sum * sum > 500 * n * n

\* np.var(scores) > 0.1 for the numeric scores (hundredths) of cats
VarianceAbove(scores, cats) ==
    LET n == Cardinality(cats)
        s(c) == IF c \in cats THEN scores[c] ELSE 0
        sum == s("water_quality") + s("air_quality")
                 + s("visual_contamination")
        sumsq == s("water_quality") * s("water_quality")
                   + s("air_quality") * s("air_quality")
                   + s("visual_contamination") * s("visual_contamination")
    IN  n * sumsq - sum * sum > 1000 * n * n

(***************************************************************************)
(* ConfidenceScorer._adjust_confidence_by_quality                          *)
(***************************************************************************)
\* one statement pair of the try block: evaluating the condition fails
\* (fails), or the condition holds (applies) and delta is added
TryStep(s, fails, applies, delta) ==
    IF s.failed THEN s
    ELSE IF fails THEN [s EXCEPT !.failed = TRUE]
    ELSE IF applies
         THEN IF IsNum(s.adj)
              THEN [s EXCEPT !.adj = Num(s.adj[2] + delta)]
              ELSE [s EXCEPT !.failed = TRUE]
    ELSE s

\* result.get(key, {}).get(field) on a sub-mapping raises when the value
\* stored under key has no .get
SubFails(result, sub) == (~result.mapping) \/ sub = "NOT_A_MAPPING"

AdjustWater(s, result) ==
    LET s1 == TryStep(s, SubFails(result, result.turbidity),
                      result.turbidity \in {"clear", "highly_turbid"}, 10)
    IN  TryStep(s1, SubFails(result, result.color_index),
                result.color_index = "unclear", -15)

AdjustAir(s, result) ==
    LET s1 == TryStep(s, SubFails(result, result.visibility),
                      result.visibility \in {"excellent", "poor"}, 10)
    IN  TryStep(s1, SubFails(result, result.smog_density),
                result.smog_density = "none", -5)

\* texture_data.get('anomaly_score', 0) < 0.2
AnomalyFails(result) ==
    (~result.mapping) \/ result.texture_anomalies = NotAMapping
        \/ result.texture_anomalies = NonNumeric

AnomalyLow(result) ==
    IF IsNum(result.texture_anomalies)
    THEN result.texture_anomalies[2] < 20
    ELSE TRUE

AdjustVisual(s, result) ==
    LET s1 == TryStep(s, ~result.mapping,
                      result.detected = "true"
                         /\ result.type \notin {"unknown", "MISSING"}, 10)
    IN  TryStep(s1, AnomalyFails(result), AnomalyLow(result), -10)

\* variant: the result is clamped to [0, 1] instead of [0.1, 1]
_adjust_confidence_by_quality_Clamp0(base_confidence, result, analysis_type) ==
    LET s0 == [adj |-> base_confidence, failed |-> FALSE]
        s  == IF analysis_type = "water_quality" THEN AdjustWater(s0, result)
              ELSE IF analysis_type = "air_quality" THEN AdjustAir(s0, result)
              ELSE IF analysis_type = "visual_contamination"
                   THEN AdjustVisual(s0, result)
              ELSE s0
    IN  IF IsNum(s.adj) THEN Ok(Min(Max(s.adj[2], 0), 100)) ELSE Raise

_adjust_confidence_by_quality(base_confidence, result, analysis_type) ==
    LET s0 == [adj |-> base_confidence, failed |-> FALSE]
        s  == IF analysis_type = "water_quality" THEN AdjustWater(s0, result)
              ELSE IF analysis_type = "air_quality" THEN AdjustAir(s0, result)
              ELSE IF analysis_type = "visual_contamination"
                   THEN AdjustVisual(s0, result)
              ELSE s0
    IN  IF IsNum(s.adj) THEN Ok(Min(Max(s.adj[2], 10), 100)) ELSE Raise

(***************************************************************************)
(* ConfidenceScorer._calculate_uncertainty_penalty (hundredths)            *)
(***************************************************************************)
ScoreOf(result) == GetOr(result.overall_score, Num(50))

\* variant: a record without confidence counts as confidence 0
ConfidenceOf_DefaultZero(result) == GetOr(result.confidence, Num(0))

ConfidenceOf(result) == GetOr(result.confidence, Num(50))

PenaltyRaises(results, mode, weights) ==
    LET cats == Present(results)
    IN  \/ \E c \in cats : ~results[c].mapping
        \/ /\ Cardinality(cats) > 1
           /\ \/ mode = "mock"
              \/ \E c \in cats : ~IsNum(ScoreOf(results[c]))
        \/ \E c \in cats : ~IsNum(ConfidenceOf(results[c]))

\* the body of the try block: the penalty in hundredths, or the exception
UncertaintyPenaltyTry(results, mode, weights, factors) ==
    IF PenaltyRaises(results, mode, weights) THEN Raise
    ELSE
    LET cats == Present(results)
        scores == [c \in cats |-> ScoreOf(results[c])[2]]
        hi == CHOOSE x \in {scores[c] : c \in cats} :
                 \A y \in {scores[c] : c \in cats} : y <= x
        lo == CHOOSE x \in {scores[c] : c \in cats} :
                 \A y \in {scores[c] : c \in cats} : x <= y
        varp == IF Cardinality(cats) > 1 /\ VarianceAbove(scores, cats)
                THEN factors.uncertainty_penalty ELSE 0
        rngp == IF Cardinality(cats) > 1 /\ hi - lo > 60
                THEN (factors.uncertainty_penalty * 5) \div 10 ELSE 0
        low_confidence_count ==
            Cardinality({c \in cats : ConfidenceOf(results[c])[2]
                                        < factors.low_confidence_threshold})
        lowp == IF low_confidence_count >= 2
                THEN (factors.uncertainty_penalty * 3) \div 10 ELSE 0
    IN  Ok(Min(varp + rngp + lowp, 30))

\* except Exception: return 0.0
UncertaintyPenalty(results, mode, weights, factors) ==
    LET r == UncertaintyPenaltyTry(results, mode, weights, factors)
    IN  IF r.exc THEN Ok(0) ELSE r

_calculate_uncertainty_penalty(results) ==
    UncertaintyPenalty(results, np, scoring_weights, confidence_factors)

(***************************************************************************)
(* ConfidenceScorer.calculate_overall_confidence (units of 1/ONE)          *)
(***************************************************************************)
\* variant: the 0.1 floor is applied before the penalty is subtracted and
\* the result is returned without the final clamp
OverallConfidenceTry_FloorFirst(results, mode, weights, factors) ==
    LET cats == Present(results)
        adj(c) == _adjust_confidence_by_quality(
                      ConfidenceOf(results[c]), results[c], c)
    IN  IF \E c \in cats : ~results[c].mapping \/ adj(c).exc THEN Raise
        ELSE IF cats = {} THEN Ok(30 * HUNDREDTH)
        ELSE LET avg == WeightedAverage(mode, [c \in cats |-> adj(c).val],
                                        weights, cats, 100)
                 pen == UncertaintyPenalty(results, mode, weights,
                                           factors).val * HUNDREDTH
             IN  IF avg.exc THEN Raise
                 ELSE Ok(Max(10 * HUNDREDTH, avg.val) - pen)

\* variant: the penalised average is floored at 0 instead of 0.1
OverallConfidenceTry_NoFloor(results, mode, weights, factors) ==
    LET cats == Present(results)
        adj(c) == _adjust_confidence_by_quality(
                      ConfidenceOf(results[c]), results[c], c)
    IN  IF \E c \in cats : ~results[c].mapping \/ adj(c).exc THEN Raise
        ELSE IF cats = {} THEN Ok(30 * HUNDREDTH)
        ELSE LET avg == WeightedAverage(mode, [c \in cats |-> adj(c).val],
                                        weights, cats, 100)
                 pen == UncertaintyPenalty(results, mode, weights,
                                           factors).val * HUNDREDTH
             IN  IF avg.exc THEN Raise
                 ELSE Ok(Min(Max(avg.val - pen, 0), ONE))

\* variant: the "if not confidences" early return is missing; numpy then
\* sums an empty array to 0.0, which the floor lifts to 0.1, and the
\* fallback's list / float raises
OverallConfidenceTry_NoEmptyCheck(results, mode, weights, factors) ==
    LET cats == Present(results)
        adj(c) == _adjust_confidence_by_quality(
                      ConfidenceOf(results[c]), results[c], c)
    IN  IF \E c \in cats : ~results[c].mapping \/ adj(c).exc THEN Raise
        ELSE IF cats = {}
             THEN IF mode = "mock" THEN Raise ELSE Ok(10 * HUNDREDTH)
        ELSE LET avg == WeightedAverage(mode, [c \in cats |-> adj(c).val],
                                        weights, cats, 100)
                 pen == UncertaintyPenalty(results, mode, weights,
                                           factors).val * HUNDREDTH
             IN  IF avg.exc THEN Raise
                 ELSE Ok(Min(Max(Max(10 * HUNDREDTH, avg.val - pen), 0),
                             ONE))

\* the body of the try block
OverallConfidenceTry(results, mode, weights, factors) ==
    LET cats == Present(results)
        adj(c) == _adjust_confidence_by_quality(
                      ConfidenceOf(results[c]), results[c], c)
    IN  IF \E c \in cats : ~results[c].mapping \/ adj(c).exc THEN Raise
        ELSE IF cats = {} THEN Ok(30 * HUNDREDTH)
        ELSE LET avg == WeightedAverage(mode, [c \in cats |-> adj(c).val],
                                        weights, cats, 100)
                 pen == UncertaintyPenalty(results, mode, weights,
                                           factors).val * HUNDREDTH
             IN  IF avg.exc THEN Raise
                 ELSE Ok(Min(Max(Max(10 * HUNDREDTH, avg.val - pen), 0),
                             ONE))

\* variant: no except clause, the exception reaches the caller
OverallConfidence_NoExcept(results, mode, weights, factors) ==
    OverallConfidenceTry(results, mode, weights, factors)

\* except Exception: return 0.3
OverallConfidence(results, mode, weights, factors) ==
    LET r == OverallConfidenceTry(results, mode, weights, factors)
    IN  IF r.exc THEN Ok(30 * HUNDREDTH) ELSE r

calculate_overall_confidence(results) ==
    OverallConfidence(results, np, scoring_weights, confidence_factors)

(***************************************************************************)
(* ConfidenceScorer.calculate_environmental_score (units of 1/ONE)         *)
(***************************************************************************)
\* variant: an unsure score is not pulled towards the midpoint 0.5
WeightedScore_NoMidpoint(result) ==
    LET score == ScoreOf(result)[2]
        confidence == ConfidenceOf(result)[2]
    IN  score * confidence

\* score * confidence + 0.5 * (1 - confidence), in units of 1/10000
WeightedScore(result) ==
    LET score == ScoreOf(result)[2]
        confidence == ConfidenceOf(result)[2]
    IN  score * confidence + 50 * (100 - confidence)

\* variant: the uncertainty penalty is subtracted from the score average too
EnvironmentalScoreTry_Penalised(results, mode, weights) ==
    LET cats == Present(results)
    IN  IF \E c \in cats : \/ ~results[c].mapping
                           \/ ~IsNum(ScoreOf(results[c]))
                           \/ ~IsNum(ConfidenceOf(results[c]))
        THEN Raise
        ELSE IF cats = {} THEN Ok(50 * HUNDREDTH)
        ELSE LET avg == WeightedAverage(mode,
                            [c \in cats |-> WeightedScore(results[c])],
                            weights, cats, 10000)
                 pen == UncertaintyPenalty(results, mode, weights,
                                           InitialFactors).val * HUNDREDTH
             IN  IF avg.exc THEN Raise
                 ELSE Ok(Min(Max(avg.val - pen, 0), ONE))

\* the body of the try block
EnvironmentalScoreTry(results, mode, weights) ==
    LET cats == Present(results)
    IN  IF \E c \in cats : \/ ~results[c].mapping
                           \/ ~IsNum(ScoreOf(results[c]))
                           \/ ~IsNum(ConfidenceOf(results[c]))
        THEN Raise
        ELSE IF cats = {} THEN Ok(50 * HUNDREDTH)
        ELSE LET avg == WeightedAverage(mode,
                            [c \in cats |-> WeightedScore(results[c])],
                            weights, cats, 10000)
             IN  IF avg.exc THEN Raise
                 ELSE Ok(Min(Max(avg.val, 0), ONE))

\* except Exception: return 0.5
EnvironmentalScore(results, mode, weights) ==
    LET r == EnvironmentalScoreTry(results, mode, weights)
    IN  IF r.exc THEN Ok(50 * HUNDREDTH) ELSE r

calculate_environmental_score(results) ==
    EnvironmentalScore(results, np, scoring_weights)

(***************************************************************************)
(* ConfidenceScorer.get_confidence_level; confidence_score is a dictionary *)
(* value in units of 1/ONE, and comparing a non-number with a threshold    *)
(* raises                                                                  *)
(***************************************************************************)
\* variant: the thresholds are compared with > instead of >=
ConfidenceLevel_Strict(confidence_score, factors) ==
    IF ~IsNum(confidence_score) THEN [exc |-> TRUE, val |-> "none"]
    ELSE IF confidence_score[2]
              > factors.high_confidence_threshold * HUNDREDTH
    THEN Ok("high")
    ELSE IF confidence_score[2]
              > factors.medium_confidence_threshold * HUNDREDTH
    THEN Ok("medium")
    ELSE IF confidence_score[2]
              > factors.low_confidence_threshold * HUNDREDTH
    THEN Ok("low")
    ELSE Ok("very_low")

ConfidenceLevel(confidence_score, factors) ==
    IF ~IsNum(confidence_score) THEN [exc |-> TRUE, val |-> "none"]
    ELSE IF confidence_score[2]
              >= factors.high_confidence_threshold * HUNDREDTH
    THEN Ok("high")
    ELSE IF confidence_score[2]
              >= factors.medium_confidence_threshold * HUNDREDTH
    THEN Ok("medium")
    ELSE IF confidence_score[2]
              >= factors.low_confidence_threshold * HUNDREDTH
    THEN Ok("low")
    ELSE Ok("very_low")

get_confidence_level(confidence_score) ==
    ConfidenceLevel(confidence_score, confidence_factors)

\* a raw confidence (hundredths) in units of 1/ONE
Scaled(v) == IF IsNum(v) THEN Num(v[2] * HUNDREDTH) ELSE v

(***************************************************************************)
(* ConfidenceScorer._assess_quality_indicators (units of 1/ONE)            *)
(***************************************************************************)
\* variant: the visual reading counts only when detected is true, as for
\* the +0.10 boost of _adjust_confidence_by_quality
ClearDetection_BoostRule(analysis_type, result) ==
    IF analysis_type = "water_quality"
    THEN result.turbidity \in {"clear", "highly_turbid"}
    ELSE IF analysis_type = "air_quality"
    THEN result.visibility \in {"excellent", "poor"}
    ELSE IF analysis_type = "visual_contamination"
    THEN result.detected = "true" /\ result.type \notin {"unknown", "MISSING"}
    ELSE FALSE

\* the reading of one entry of analysis_results.items() is unambiguous
ClearDetection(analysis_type, result) ==
    IF analysis_type = "water_quality"
    THEN result.turbidity \in {"clear", "highly_turbid"}
    ELSE IF analysis_type = "air_quality"
    THEN result.visibility \in {"excellent", "poor"}
    ELSE IF analysis_type = "visual_contamination"
    THEN result.type \notin {"unknown", "MISSING"}
    ELSE FALSE

\* there is no try block here: result.get(...).get('level', ...) raises
ClarityRaises(analysis_type, result) ==
    \/ ~result.mapping
    \/ analysis_type = "water_quality" /\ result.turbidity = "NOT_A_MAPPING"
    \/ analysis_type = "air_quality" /\ result.visibility = "NOT_A_MAPPING"

NoIndicators ==
    [data_completeness |-> 0, result_consistency |-> 0,
     detection_clarity |-> 0]

\* variant: the completeness is taken over the entries of the result set
\* instead of the entries of self.scoring_weights
QualityIndicators_OfPresent(results, mode, weights, factors) ==
    LET keys == DOMAIN results
        total_detections == Cardinality(keys)
        clear_detections ==
            Cardinality({k \in keys : ClearDetection(k, results[k])})
        pen == UncertaintyPenalty(results, mode, weights, factors).val
    IN  IF \E k \in keys : ClarityRaises(k, results[k])
        THEN [exc |-> TRUE, val |-> NoIndicators]
        ELSE Ok([data_completeness |->
                    IF total_detections > 0 THEN ONE ELSE 0,
                 result_consistency |-> ONE - pen * (ONE \div 30),
                 detection_clarity |->
                    IF total_detections > 0
                    THEN (clear_detections * ONE) \div total_detections
                    ELSE 50 * HUNDREDTH])

\* variant: the consistency is 1 - penalty, not scaled by the 0.3 cap
QualityIndicators_Unscaled(results, mode, weights, factors) ==
    LET keys == DOMAIN results
        total_detections == Cardinality(keys)
        clear_detections ==
            Cardinality({k \in keys : ClearDetection(k, results[k])})
        pen == UncertaintyPenalty(results, mode, weights, factors).val
    IN  IF \E k \in keys : ClarityRaises(k, results[k])
        THEN [exc |-> TRUE, val |-> NoIndicators]
        ELSE Ok([data_completeness |->
                    (total_detections * ONE) \div Cardinality(DOMAIN weights),
                 result_consistency |-> ONE - pen * HUNDREDTH,
                 detection_clarity |->
                    IF total_detections > 0
                    THEN (clear_detections * ONE) \div total_detections
                    ELSE 50 * HUNDREDTH])

QualityIndicators(results, mode, weights, factors) ==
    LET keys == DOMAIN results
        total_detections == Cardinality(keys)
        clear_detections ==
            Cardinality({k \in keys : ClearDetection(k, results[k])})
        pen == UncertaintyPenalty(results, mode, weights, factors).val
    IN  IF \E k \in keys : ClarityRaises(k, results[k])
        THEN [exc |-> TRUE, val |-> NoIndicators]
        ELSE Ok([data_completeness |->
                    (total_detections * ONE) \div Cardinality(DOMAIN weights),
                 result_consistency |-> ONE - pen * (ONE \div 30),
                 detection_clarity |->
                    IF total_detections > 0
                    THEN (clear_detections * ONE) \div total_detections
                    ELSE 50 * HUNDREDTH])

_assess_quality_indicators(results) ==
    QualityIndicators(results, np, scoring_weights, confidence_factors)

(***************************************************************************)
(* ConfidenceScorer._generate_confidence_recommendations                   *)
(***************************************************************************)
Append_if(recommendations, cond, message) ==
    IF cond THEN Append(recommendations, message) ELSE recommendations

\* variant: the five conditions form an if / elif chain, so only the first
\* one that holds appends its message
_generate_confidence_recommendations_Elif(overall_confidence, quality_indicators) ==
    IF overall_confidence < 40 * HUNDREDTH
    THEN <<"Low confidence detected - consider additional data sources">>
    ELSE IF quality_indicators.data_completeness < 80 * HUNDREDTH
    THEN <<"Incomplete analysis - some environmental factors not assessed">>
    ELSE IF quality_indicators.result_consistency < 60 * HUNDREDTH
    THEN <<"Inconsistent results detected - manual verification recommended">>
    ELSE IF quality_indicators.detection_clarity < 50 * HUNDREDTH
    THEN <<"Unclear detection results - image quality may be insufficient">>
    ELSE IF overall_confidence > 80 * HUNDREDTH
    THEN <<"High confidence analysis - results are reliable">>
    ELSE <<>>

\* variant: the two conditions on overall_confidence include their bounds
_generate_confidence_recommendations_Inclusive(overall_confidence, quality_indicators) ==
    LET r1 == Append_if(<<>>, overall_confidence <= 40 * HUNDREDTH,
                        "Low confidence detected - consider additional data sources")
        r2 == Append_if(r1, quality_indicators.data_completeness
                              < 80 * HUNDREDTH,
                        "Incomplete analysis - some environmental factors not assessed")
        r3 == Append_if(r2, quality_indicators.result_consistency
                              < 60 * HUNDREDTH,
                        "Inconsistent results detected - manual verification recommended")
        r4 == Append_if(r3, quality_indicators.detection_clarity
                              < 50 * HUNDREDTH,
                        "Unclear detection results - image quality may be insufficient")
    IN  Append_if(r4, overall_confidence >= 80 * HUNDREDTH,
                  "High confidence analysis - results are reliable")

_generate_confidence_recommendations(overall_confidence, quality_indicators) ==
    LET r1 == Append_if(<<>>, overall_confidence < 40 * HUNDREDTH,
                        "Low confidence detected - consider additional data sources")
        r2 == Append_if(r1, quality_indicators.data_completeness
                              < 80 * HUNDREDTH,
                        "Incomplete analysis - some environmental factors not assessed")
        r3 == Append_if(r2, quality_indicators.result_consistency
                              < 60 * HUNDREDTH,
                        "Inconsistent results detected - manual verification recommended")
        r4 == Append_if(r3, quality_indicators.detection_clarity
                              < 50 * HUNDREDTH,
                        "Unclear detection results - image quality may be insufficient")
    IN  Append_if(r4, overall_confidence > 80 * HUNDREDTH,
                  "High confidence analysis - results are reliable")

(***************************************************************************)
(* ConfidenceScorer.generate_confidence_report                             *)
(***************************************************************************)
\* the value of report before any report is generated
NoReport ==
    [keys |-> {}, overall_confidence |-> 0, confidence_level |-> "none",
     environmental_score |-> 0, individual_confidences |-> <<>>,
     quality_indicators |-> NoIndicators, uncertainty_penalty |-> 0,
     recommendations |-> <<>>, error |-> "none"]

\* except Exception: the degraded report
DegradedReport ==
    [NoReport EXCEPT
        !.keys = {"overall_confidence", "confidence_level",
                  "environmental_score", "error"},
        !.overall_confidence = 30 * HUNDREDTH,
        !.confidence_level = "low",
        !.environmental_score = 50 * HUNDREDTH,
        !.error = "Failed to generate confidence report"]

\* the body of the try block: the report, or the exception
ConfidenceReportTry(results, mode, weights, factors) ==
    LET cats == Present(results)
        overall_confidence ==
            OverallConfidence(results, mode, weights, factors).val
        environmental_score == EnvironmentalScore(results, mode, weights).val
        indiv(c) == ConfidenceLevel(Scaled(ConfidenceOf(results[c])), factors)
        quality_indicators ==
            QualityIndicators(results, mode, weights, factors)
    IN  IF \/ \E c \in cats : ~results[c].mapping \/ indiv(c).exc
           \/ quality_indicators.exc
        THEN [exc |-> TRUE, val |-> NoReport]
        ELSE Ok(
          [keys |-> {"overall_confidence", "confidence_level",
                     "environmental_score", "individual_confidences",
                     "quality_indicators", "uncertainty_penalty",
                     "recommendations"},
           overall_confidence |-> overall_confidence,
           confidence_level |->
               ConfidenceLevel(Num(overall_confidence), factors).val,
           environmental_score |-> environmental_score,
           individual_confidences |->
               [c \in cats |-> [confidence |-> ConfidenceOf(results[c])[2],
                                level |-> indiv(c).val]],
           quality_indicators |-> quality_indicators.val,
           uncertainty_penalty |->
               UncertaintyPenalty(results, mode, weights, factors).val,
           recommendations |->
               _generate_confidence_recommendations(
                   overall_confidence, quality_indicators.val),
           error |-> "none"])

\* variant: no except clause, the exception reaches the caller
ConfidenceReport_NoExcept(results, mode, weights, factors) ==
    ConfidenceReportTry(results, mode, weights, factors)

\* except Exception: return the degraded report
ConfidenceReport(results, mode, weights, factors) ==
    LET r == ConfidenceReportTry(results, mode, weights, factors)
    IN  IF r.exc THEN Ok(DegradedReport) ELSE r

generate_confidence_report(results) ==
    ConfidenceReport(results, np, scoring_weights, confidence_factors)

(***************************************************************************)
(* Result sets handed to the scorer.  A category record carries every key  *)
(* the scorer reads; the keys of the other categories are absent.          *)
(***************************************************************************)
Record(score, confidence, water, air, visual) ==
    [mapping |-> TRUE, overall_score |-> score, confidence |-> confidence,
     turbidity |-> water[1], color_index |-> water[2],
     visibility |-> air[1], smog_density |-> air[2],
     detected |-> visual[1], type |-> visual[2],
     texture_anomalies |-> visual[3]]

NoReadings == <<"MISSING", "MISSING", Missing>>

WaterRecord(score, confidence, turbidity, color_index) ==
    Record(score, confidence, <<turbidity, color_index>>, NoReadings,
           NoReadings)

AirRecord(score, confidence, visibility, smog_density) ==
    Record(score, confidence, NoReadings, <<visibility, smog_density>>,
           NoReadings)

VisualRecord(score, confidence, detected, type, texture_anomalies) ==
    Record(score, confidence, NoReadings, NoReadings,
           <<detected, type, texture_anomalies>>)

\* a category result that is not a mapping at all (None, a string)
NonMappingResult ==
    [WaterRecord(Missing, Missing, "MISSING", "MISSING")
        EXCEPT !.mapping = FALSE]

\* the qualitative readings of a category as <<first, second, third>>
CategoryRecord(c, score, confidence, q) ==
    IF c = "water_quality" THEN WaterRecord(score, confidence, q[1], q[2])
    ELSE IF c = "air_quality" THEN AirRecord(score, confidence, q[1], q[2])
    ELSE VisualRecord(score, confidence, q[1], q[2], q[3])

\* readings that trigger no adjustment, the boost, the reduction
Neutral(c) ==
    IF c = "water_quality" THEN <<"slightly_turbid", "blue", Missing>>
    ELSE IF c = "air_quality" THEN <<"moderate", "gray_smog", Missing>>
    ELSE <<"false", "none", Num(40)>>

Boosted(c) ==
    IF c = "water_quality" THEN <<"clear", "blue", Missing>>
    ELSE IF c = "air_quality" THEN <<"poor", "gray_smog", Missing>>
    ELSE <<"true", "plastic", Num(40)>>

Reduced(c) ==
    IF c = "water_quality" THEN <<"slightly_turbid", "unclear", Missing>>
    ELSE IF c = "air_quality" THEN <<"moderate", "none", Missing>>
    ELSE <<"false", "none", Num(10)>>

\* every well-formed combination of readings of one category
AllReadings(c) ==
    IF c = "water_quality"
    THEN {<<t, d, Missing>> :
            t \in {"MISSING", "NO_FIELD", "clear", "highly_turbid",
                   "slightly_turbid"},
            d \in {"MISSING", "blue", "unclear"}}
    ELSE IF c = "air_quality"
    THEN {<<v, t, Missing>> :
            v \in {"MISSING", "excellent", "poor", "moderate"},
            t \in {"MISSING", "none", "gray_smog"}}
    ELSE {<<d, t, a>> :
            d \in {"MISSING", "true", "false"},
            t \in {"MISSING", "unknown", "plastic"},
            a \in {Missing, <<"noscore", 0>>, Num(10), Num(20), Num(40)}}

\* readings with a sub-field of the wrong type
MalformedReadings(c) ==
    IF c = "water_quality"
    THEN {<<"NOT_A_MAPPING", "unclear", Missing>>,
          <<"clear", "NOT_A_MAPPING", Missing>>,
          <<"slightly_turbid", "NOT_A_MAPPING", Missing>>}
    ELSE IF c = "air_quality"
    THEN {<<"NOT_A_MAPPING", "none", Missing>>,
          <<"poor", "NOT_A_MAPPING", Missing>>,
          <<"moderate", "NOT_A_MAPPING", Missing>>}
    ELSE {<<"true", "plastic", NotAMapping>>,
          <<"true", "plastic", NonNumeric>>,
          <<"false", "none", NonNumeric>>}

ScoreVals == {0, 20, 50, 82, 100}

ConfVals == {0, 35, 40, 100}

Grid == {(k * 100) \div MaxGrid : k \in 0..MaxGrid}

\* a category the result set leaves out
Absent == [NonMappingResult EXCEPT !.overall_score = <<"absent", 0>>]

ResultSet(water, air, visual) ==
    LET opt == [c \in Categories |->
                   IF c = "water_quality" THEN water
                   ELSE IF c = "air_quality" THEN air ELSE visual]
    IN  [c \in {k \in Categories : opt[k] # Absent} |-> opt[c]]

\* all result sets that give each category one of the records of recs[c],
\* or leave it out
ResultSets(recs) ==
    {ResultSet(w, a, v) :
        w \in recs["water_quality"] \cup {Absent},
        a \in recs["air_quality"] \cup {Absent},
        v \in recs["visual_contamination"] \cup {Absent}}

ScoreFamilyConfs == {0, 80}

\* valid records that differ in score, with neutral readings
ScoreFamily ==
    ResultSets([c \in Categories |->
        {CategoryRecord(c, Num(s), Num(k), Neutral(c)) :
            s \in ScoreVals, k \in ScoreFamilyConfs}])

\* the result sets of ScoreFamily, which raising a score keeps in the family
InScoreFamily(results) ==
    \A c \in DOMAIN results :
        /\ results[c].mapping
        /\ IsNum(results[c].overall_score)
        /\ results[c].overall_score[2] \in ScoreVals
        /\ IsNum(results[c].confidence)
        /\ results[c].confidence[2] \in ScoreFamilyConfs
        /\ results[c] = CategoryRecord(c, results[c].overall_score,
                                       results[c].confidence, Neutral(c))

\* valid records that differ in confidence and in the adjustment they get
ConfidenceFamily ==
    ResultSets([c \in Categories |->
        {CategoryRecord(c, Num(50), Num(k), q) :
            k \in ConfVals, q \in {Neutral(c), Boosted(c), Reduced(c)}}])

\* one category, every combination of readings, a grid of confidences
SingleFamily ==
    UNION {{[k \in {c} |-> CategoryRecord(c, Num(50), Num(g), q)] :
               g \in Grid, q \in AllReadings(c)} : c \in Categories}

\* records with missing, non-numeric or out-of-range fields, sub-fields of
\* the wrong type, and results that are no mapping
MalformedFamily ==
    ResultSets([c \in Categories |->
        {CategoryRecord(c, Num(50), Num(80), Neutral(c)),
         NonMappingResult,
         CategoryRecord(c, Num(50), NonNumeric, Boosted(c)),
         CategoryRecord(c, NonNumeric, Num(80), Neutral(c)),
         CategoryRecord(c, Missing, Missing, Neutral(c)),
         CategoryRecord(c, Num(150), Num(-50), Reduced(c)),
         CategoryRecord(c, Num(-50), Num(150), Boosted(c))}
        \cup {CategoryRecord(c, Num(50), Num(80), q) :
                 q \in MalformedReadings(c)}])

\* the records the three analysers of services/image_analyzer.py produce,
\* with the confidence each reports replaced by the given one
AnalyzerRecord(c, confidence) ==
    IF c = "water_quality"
    THEN WaterRecord(Num(65), confidence, "slightly_turbid", "blue")
    ELSE IF c = "air_quality"
    THEN AirRecord(Num(70), confidence, "good", "gray_smog")
    ELSE VisualRecord(Num(80), confidence, "false", "none", Num(20))

\* the analysers' results as they are, alone and together, and with the
\* low confidences 0.3, 0.35 and 0.5
ScenarioFamily ==
    ResultSets([c \in Categories |-> {AnalyzerRecord(c, Num(70))}])
      \cup {ResultSet(AnalyzerRecord("water_quality", Num(30)),
                      AnalyzerRecord("air_quality", Num(35)),
                      AnalyzerRecord("visual_contamination", Num(50)))}

\* two categories with the same score 0.5, one sure (0.9), one unsure (0.1)
SameScoreFamily ==
    {[k \in {p[1], p[2]} |->
        CategoryRecord(k, Num(50), IF k = p[1] THEN Num(90) ELSE Num(10),
                       Neutral(k))] :
        p \in {q \in Categories \X Categories : q[1] # q[2]}}

\* the scores and confidences of the fixture of test_confidence_scorer,
\* with every choice of readings that adjusts or leaves the confidence
FixtureFamily ==
    {ResultSet(CategoryRecord("water_quality", Num(75), Num(80), qw),
               CategoryRecord("air_quality", Num(65), Num(65), qa),
               CategoryRecord("visual_contamination", Num(40), Num(65), qv)) :
        qw \in {Neutral("water_quality"), Boosted("water_quality"),
                Reduced("water_quality")},
        qa \in {Neutral("air_quality"), Boosted("air_quality"),
                Reduced("air_quality")},
        qv \in {Neutral("visual_contamination"),
                Boosted("visual_contamination"),
                Reduced("visual_contamination")}}

\* records that leave out the confidence or the overall_score
DefaultsFamily ==
    ResultSets([c \in Categories |->
        {CategoryRecord(c, Num(82), Missing, Neutral(c)),
         CategoryRecord(c, Missing, Num(100), Neutral(c)),
         CategoryRecord(c, Num(82), Num(35), Neutral(c))}])

Inputs == ScoreFamily \cup ConfidenceFamily \cup SingleFamily
            \cup MalformedFamily \cup ScenarioFamily
            \cup SameScoreFamily \cup FixtureFamily \cup DefaultsFamily

(***************************************************************************)
(* utils/validators.py: the request of POST /analyze and its validation    *)
(***************************************************************************)
MaxTypes == 3

\* the elements a client may put into analysis_types: the known types, an
\* unknown one, and a value that is no string
TypeVals == Categories \cup {"soil_quality", "NOT_A_STRING"}

AnalysisTypeLists == UNION {[1..k -> TypeVals] : k \in 0..MaxTypes}

UrlVals == {"NOT_A_STRING", "NO_SCHEME", "FTP_SCHEME", "HTTPS_URL"}

LocationVals == {"NOT_A_DICT", "LATITUDE_OUT_OF_RANGE", "IN_RANGE"}

\* analysis_types as sent: left out, something that is no list, or a list
TypesLeftOut == [given |-> FALSE, list |-> FALSE, items |-> <<>>]

TypesNotAList == [given |-> TRUE, list |-> FALSE, items |-> <<>>]

TypesList(items) == [given |-> TRUE, list |-> TRUE, items |-> items]

\* request.json: nothing, an empty object, the array ["image_url"], or an
\* object with some of the three fields
Body(kind) ==
    [kind |-> kind, image_url |-> "ABSENT", location |-> "ABSENT",
     analysis_types |-> TypesLeftOut]

NoRequest == Body("none")

Requests ==
    {Body("none"), Body("empty"), Body("array")}
      \cup {[kind |-> "object", image_url |-> u, location |-> l,
             analysis_types |-> t] :
              u \in UrlVals \cup {"ABSENT"},
              l \in LocationVals \cup {"ABSENT"},
              t \in {TypesLeftOut, TypesNotAList}
                      \cup {TypesList(q) : q \in AnalysisTypeLists}}

Accept == [valid |-> TRUE, error |-> "none", exc |-> FALSE]

Reject(error) == [valid |-> FALSE, error |-> error, exc |-> FALSE]

validate_image_url(url) ==
    IF url = "NOT_A_STRING"
    THEN Reject("Image URL must be a non-empty string")
    ELSE IF url = "NO_SCHEME" THEN Reject("Invalid URL format")
    ELSE IF url = "FTP_SCHEME"
    THEN Reject("URL must use http or https protocol")
    ELSE Accept

validate_location(location) ==
    IF location = "NOT_A_DICT" THEN Reject("Location must be a dictionary")
    ELSE IF location = "LATITUDE_OUT_OF_RANGE"
    THEN Reject("Latitude must be between -90 and 90")
    ELSE Accept

\* variant: an empty list of analysis types is accepted
validate_analysis_types_AllowEmpty(analysis_types) ==
    LET items == analysis_types.items
        bad == {i \in DOMAIN items : items[i] \notin Categories}
    IN  IF ~analysis_types.list THEN Reject("Analysis types must be a list")
        ELSE IF bad # {}
        THEN IF items[FirstOf(bad)] = "NOT_A_STRING"
             THEN Reject("Analysis types must be strings")
             ELSE Reject("Invalid analysis type")
        ELSE IF Len(items) # Cardinality({items[i] : i \in DOMAIN items})
        THEN Reject("Duplicate analysis types are not allowed")
        ELSE Accept

validate_analysis_types(analysis_types) ==
    LET items == analysis_types.items
        bad == {i \in DOMAIN items : items[i] \notin Categories}
    IN  IF ~analysis_types.list THEN Reject("Analysis types must be a list")
        ELSE IF items = <<>>
        THEN Reject("At least one analysis type must be specified")
        ELSE IF bad # {}
        THEN IF items[FirstOf(bad)] = "NOT_A_STRING"
             THEN Reject("Analysis types must be strings")
             ELSE Reject("Invalid analysis type")
        ELSE IF Len(items) # Cardinality({items[i] : i \in DOMAIN items})
        THEN Reject("Duplicate analysis types are not allowed")
        ELSE Accept

validate_image_request(request_data) ==
    IF request_data.kind \in {"none", "empty"}
    THEN Reject("Request data is required")
    ELSE IF request_data.kind = "array"
    THEN [valid |-> FALSE, error |-> "TypeError", exc |-> TRUE]
    ELSE IF request_data.image_url = "ABSENT"
    THEN Reject("image_url is required")
    ELSE IF ~validate_image_url(request_data.image_url).valid
    THEN validate_image_url(request_data.image_url)
    ELSE IF /\ request_data.location # "ABSENT"
            /\ ~validate_location(request_data.location).valid
    THEN validate_location(request_data.location)
    ELSE IF /\ request_data.analysis_types.given
            /\ ~validate_analysis_types(request_data.analysis_types).valid
    THEN validate_analysis_types(request_data.analysis_types)
    ELSE Accept

\* data.get('analysis_types', [all three]) as a set
RequestedTypes(request_data) ==
    IF request_data.analysis_types.given
    THEN {request_data.analysis_types.items[i] :
             i \in DOMAIN request_data.analysis_types.items}
    ELSE Categories

\* the response before the handler has answered
NoResponse ==
    [status |-> "none", http |-> 0, error |-> "none",
     overall_confidence |-> 0, overall_score |-> 0, analysis_types |-> {}]

Failure(status, http, error) ==
    [NoResponse EXCEPT !.status = status, !.http = http, !.error = error]

(***************************************************************************)
(* Calls of the scorer made concurrently by request-handling threads       *)
(***************************************************************************)
NThreads == 2

Threads == 1..NThreads

\* the frame of a thread that is not inside a call
IdleFrame ==
    [pc |-> "idle", name |-> "none", results |-> <<>>, todo |-> {},
     weights |-> <<>>, result |-> 0]

(***************************************************************************)
(* The scorer as a state machine: the module is imported (np), a scorer is *)
(* constructed, and its operations are called on a result set.             *)
(***************************************************************************)
Init ==
    /\ np \in NumpyModes
    /\ scoring_weights = InitialWeights
    /\ confidence_factors = InitialFactors
    /\ analysis_results \in Inputs
    /\ op = "init"
    /\ arg = "none"
    /\ ret = 0
    /\ before = 0
    /\ raised = FALSE
    /\ level = "none"
    /\ report = NoReport
    /\ request = NoRequest
    /\ pc = "idle"
    /\ image_data = "unset"
    /\ calls = <<>>
    /\ response = NoResponse
    /\ frames = [t \in Threads |-> IdleFrame]

\* A behaviour takes one request's result set and calls one operation on
\* it, any number of times in succession.
Callable(name) == op \in {"init", name}

\* what a call of a numeric operation leaves behind
Returned(name, a, r) ==
    /\ Callable(name)
    /\ op' = name
    /\ arg' = a
    /\ ret' = r.val
    /\ raised' = r.exc
    /\ before' = 0
    /\ level' = "none"
    /\ report' = NoReport
    /\ UNCHANGED <<handlerVars, frames>>
    /\ UNCHANGED <<np, scoring_weights, confidence_factors, analysis_results>>

\* variant: the normalised weights (in thousandths) are stored back into
\* self.scoring_weights
CallOverallConfidence_StoresWeights ==
    LET r == calculate_overall_confidence(analysis_results)
        cats == Present(analysis_results)
    IN  /\ Callable("calculate_overall_confidence")
        /\ cats # {}
        /\ op' = "calculate_overall_confidence"
        /\ arg' = "none"
        /\ ret' = r.val
        /\ raised' = r.exc
        /\ before' = 0
        /\ level' = "none"
        /\ report' = NoReport
        /\ scoring_weights' =
              [c \in Categories |->
                  IF c \in cats
                  THEN (scoring_weights[c] * 1000)
                          \div np_sum(scoring_weights, cats)
                  ELSE scoring_weights[c]]
        /\ UNCHANGED <<handlerVars, frames>>
        /\ UNCHANGED <<np, confidence_factors, analysis_results>>

CallOverallConfidence ==
    Returned("calculate_overall_confidence", "none",
             calculate_overall_confidence(analysis_results))

CallEnvironmentalScore ==
    Returned("calculate_environmental_score", "none",
             calculate_environmental_score(analysis_results))

CallUncertaintyPenalty ==
    LET r == _calculate_uncertainty_penalty(analysis_results)
    IN  Returned("_calculate_uncertainty_penalty", "none",
                 [r EXCEPT !.val = r.val * HUNDREDTH])

\* the call made for one present category by calculate_overall_confidence
CallAdjustConfidence ==
    \E c \in Present(analysis_results) :
        /\ analysis_results[c].mapping
        /\ LET r == _adjust_confidence_by_quality(
                        ConfidenceOf(analysis_results[c]),
                        analysis_results[c], c)
           IN  Returned("_adjust_confidence_by_quality", c,
                        [r EXCEPT !.val = r.val * HUNDREDTH])

\* the calls made by generate_confidence_report: on the overall confidence
\* just computed, and on the confidence of one present category
CallGetConfidenceLevel ==
    \E a \in Present(analysis_results) \cup {"overall"} :
        /\ a = "overall" => op = "calculate_overall_confidence"
        /\ a # "overall" => /\ Callable("get_confidence_level")
                            /\ analysis_results[a].mapping
        /\ LET score == IF a = "overall" THEN Num(ret)
                        ELSE Scaled(ConfidenceOf(analysis_results[a]))
               r == get_confidence_level(score)
           IN  /\ op' = "get_confidence_level"
               /\ arg' = a
               /\ ret' = IF IsNum(score) THEN score[2] ELSE 0
               /\ raised' = r.exc
               /\ level' = r.val
               /\ before' = 0
               /\ report' = NoReport
               /\ UNCHANGED <<handlerVars, frames>>
               /\ UNCHANGED <<np, scoring_weights, confidence_factors,
                              analysis_results>>

CallConfidenceReport ==
    LET r == generate_confidence_report(analysis_results)
    IN  /\ Callable("generate_confidence_report")
        /\ op' = "generate_confidence_report"
        /\ arg' = "none"
        /\ ret' = 0
        /\ raised' = r.exc
        /\ level' = "none"
        /\ before' = 0
        /\ report' = r.val
        /\ UNCHANGED <<handlerVars, frames>>
        /\ UNCHANGED <<np, scoring_weights, confidence_factors,
                       analysis_results>>

\* the environmental score of a result set, then of the same result set
\* with the overall_score of one category raised
RaiseScore ==
    \E c \in Present(analysis_results), s \in ScoreVals :
        /\ op = "init"
        /\ InScoreFamily(analysis_results)
        /\ s > analysis_results[c].overall_score[2]
        /\ analysis_results' =
              [analysis_results EXCEPT ![c].overall_score = Num(s)]
        /\ op' = "raise_score"
        /\ arg' = c
        /\ before' = calculate_environmental_score(analysis_results).val
        /\ ret' = calculate_environmental_score(analysis_results').val
        /\ raised' = FALSE
        /\ level' = "none"
        /\ report' = NoReport
        /\ UNCHANGED <<handlerVars, frames>>
        /\ UNCHANGED <<np, scoring_weights, confidence_factors>>

Next ==
    \/ CallOverallConfidence
    \/ CallEnvironmentalScore
    \/ CallUncertaintyPenalty
    \/ CallAdjustConfidence
    \/ CallGetConfidenceLevel
    \/ CallConfidenceReport
    \/ RaiseScore

Spec == Init /\ [][Next]_vars

(***************************************************************************)
(* app.py: the handler of POST /analyze, one statement group per step      *)
(***************************************************************************)
HandlerInit ==
    /\ np \in NumpyModes
    /\ scoring_weights = InitialWeights
    /\ confidence_factors = InitialFactors
    /\ analysis_results = <<>>
    /\ op = "init"
    /\ arg = "none"
    /\ ret = 0
    /\ before = 0
    /\ raised = FALSE
    /\ level = "none"
    /\ report = NoReport
    /\ request \in Requests
    /\ pc = "validate"
    /\ image_data = "unset"
    /\ calls = <<>>
    /\ response = NoResponse
    /\ frames = [t \in Threads |-> IdleFrame]

\* what no step of the handler changes
HandlerFrame ==
    UNCHANGED <<np, scoring_weights, confidence_factors, callVars, request,
                frames>>

\* validation_result = validate_image_request(request.json), and the
\* return of the 400 response when it is not valid
ValidateRequest ==
    LET v == validate_image_request(request)
    IN  /\ pc = "validate"
        /\ calls' = Append(calls, "validate_image_request")
        /\ IF v.exc
           THEN /\ response' = Failure("analysis_failed", 500,
                                 "Internal server error during analysis")
                /\ pc' = "done"
           ELSE IF ~v.valid
           THEN /\ response' = Failure("validation_failed", 400, v.error)
                /\ pc' = "done"
           ELSE /\ response' = response
                /\ pc' = "acquire"
        /\ UNCHANGED <<analysis_results, image_data>>
        /\ HandlerFrame

\* variant: the handler goes on to the analyses without looking at what
\* download_and_preprocess returned
AcquireImage_NoCheck ==
    \E img \in {"none", "image"} :
        /\ pc = "acquire"
        /\ image_data' = img
        /\ calls' = Append(calls, "download_and_preprocess")
        /\ response' = response
        /\ pc' = "analyze_water_quality"
        /\ UNCHANGED analysis_results
        /\ HandlerFrame

\* image_data = image_processor.download_and_preprocess(image_url), which
\* returns None on every failure, and the return of the 400 response
AcquireImage ==
    \E img \in {"none", "image"} :
        /\ pc = "acquire"
        /\ image_data' = img
        /\ calls' = Append(calls, "download_and_preprocess")
        /\ IF img = "none"
           THEN /\ response' = Failure("processing_failed", 400,
                                 "Failed to download or process image")
                /\ pc' = "done"
           ELSE /\ response' = response
                /\ pc' = "analyze_water_quality"
        /\ UNCHANGED analysis_results
        /\ HandlerFrame

\* if c in analysis_types: analysis_results[c] = image_analyzer.analyze_c(...)
Analyze(c, next) ==
    /\ pc = "analyze_" \o c
    /\ pc' = next
    /\ IF c \in RequestedTypes(request)
       THEN /\ analysis_results' =
                  [k \in DOMAIN analysis_results \cup {c} |->
                      IF k = c THEN AnalyzerRecord(c, Num(70))
                      ELSE analysis_results[k]]
            /\ calls' = Append(calls, "analyze_" \o c)
       ELSE UNCHANGED <<analysis_results, calls>>
    /\ UNCHANGED <<image_data, response>>
    /\ HandlerFrame

AnalyzeWaterQuality == Analyze("water_quality", "analyze_air_quality")

AnalyzeAirQuality == Analyze("air_quality", "analyze_visual_contamination")

AnalyzeVisualContamination ==
    Analyze("visual_contamination", "calculate_overall_confidence")

\* overall_confidence = confidence_scorer.calculate_overall_confidence(...)
ScoreConfidence ==
    LET r == calculate_overall_confidence(analysis_results)
    IN  /\ pc = "calculate_overall_confidence"
        /\ calls' = Append(calls, "calculate_overall_confidence")
        /\ IF r.exc
           THEN /\ response' = Failure("analysis_failed", 500,
                                 "Internal server error during analysis")
                /\ pc' = "done"
           ELSE /\ response' = [response EXCEPT !.overall_confidence = r.val]
                /\ pc' = "calculate_environmental_score"
        /\ UNCHANGED <<analysis_results, image_data>>
        /\ HandlerFrame

\* overall_score = confidence_scorer.calculate_environmental_score(...)
ScoreEnvironment ==
    LET r == calculate_environmental_score(analysis_results)
    IN  /\ pc = "calculate_environmental_score"
        /\ calls' = Append(calls, "calculate_environmental_score")
        /\ IF r.exc
           THEN /\ response' = Failure("analysis_failed", 500,
                                 "Internal server error during analysis")
                /\ pc' = "done"
           ELSE /\ response' = [response EXCEPT !.overall_score = r.val]
                /\ pc' = "respond"
        /\ UNCHANGED <<analysis_results, image_data>>
        /\ HandlerFrame

\* the recommendations of the analyser and the success response
Respond ==
    /\ pc = "respond"
    /\ calls' = Append(calls, "generate_recommendations")
    /\ response' = [response EXCEPT !.status = "success", !.http = 200,
                       !.analysis_types = RequestedTypes(request)]
    /\ pc' = "done"
    /\ UNCHANGED <<analysis_results, image_data>>
    /\ HandlerFrame

HandlerNext ==
    \/ ValidateRequest
    \/ AcquireImage
    \/ AnalyzeWaterQuality
    \/ AnalyzeAirQuality
    \/ AnalyzeVisualContamination
    \/ ScoreConfidence
    \/ ScoreEnvironment
    \/ Respond

HandlerSpec == HandlerInit /\ [][HandlerNext]_vars

(***************************************************************************)
(* Threads of the server calling the one ConfidenceScorer of app.py: each  *)
(* call reads self.scoring_weights entry by entry in its loop, then        *)
(* computes on its own lists.                                              *)
(***************************************************************************)
\* the result sets the threads pass to the scorer
ThreadInputs ==
    {ResultSet(AnalyzerRecord("water_quality", Num(70)), Absent, Absent),
     ResultSet(Absent, AnalyzerRecord("air_quality", Num(70)),
               AnalyzerRecord("visual_contamination", Num(70))),
     ResultSet(AnalyzerRecord("water_quality", Num(30)),
               AnalyzerRecord("air_quality", Num(35)),
               AnalyzerRecord("visual_contamination", Num(50)))}

ThreadOperations ==
    {"calculate_overall_confidence", "calculate_environmental_score"}

ThreadInit ==
    /\ np \in NumpyModes
    /\ scoring_weights = InitialWeights
    /\ confidence_factors = InitialFactors
    /\ analysis_results = <<>>
    /\ op = "init"
    /\ arg = "none"
    /\ ret = 0
    /\ before = 0
    /\ raised = FALSE
    /\ level = "none"
    /\ report = NoReport
    /\ request = NoRequest
    /\ pc = "idle"
    /\ image_data = "unset"
    /\ calls = <<>>
    /\ response = NoResponse
    /\ frames = [t \in Threads |-> IdleFrame]

\* what no step of a thread changes
ThreadFrame ==
    UNCHANGED <<np, confidence_factors, analysis_results, callVars,
                handlerVars>>

\* the next key of self.scoring_weights.items() that the loop has not seen
NextKey(todo) ==
    IF "water_quality" \in todo THEN "water_quality"
    ELSE IF "air_quality" \in todo THEN "air_quality"
    ELSE "visual_contamination"

\* a thread enters an operation with a result set of its own
ThreadCall(t) ==
    \E name \in ThreadOperations, results \in ThreadInputs :
        /\ frames[t].pc = "idle"
        /\ frames' = [frames EXCEPT ![t] =
                         [pc |-> "loop", name |-> name, results |-> results,
                          todo |-> Categories, weights |-> <<>>,
                          result |-> 0]]
        /\ UNCHANGED scoring_weights
        /\ ThreadFrame

\* one iteration of the loop over self.scoring_weights.items(): the weight
\* of a present category is appended to the thread's list
ThreadLoop(t) ==
    LET f == frames[t]
        c == NextKey(f.todo)
    IN  /\ f.pc = "loop"
        /\ f.todo # {}
        /\ frames' = [frames EXCEPT ![t] =
              [f EXCEPT !.todo = f.todo \ {c},
                        !.weights =
                            IF c \in DOMAIN f.results
                            THEN [k \in DOMAIN f.weights \cup {c} |->
                                     IF k = c THEN scoring_weights[c]
                                     ELSE f.weights[k]]
                            ELSE f.weights]]
        /\ UNCHANGED scoring_weights
        /\ ThreadFrame

\* the value the operation computes from the weights the thread collected
ThreadResult(f) ==
    IF f.name = "calculate_overall_confidence"
    THEN OverallConfidence(f.results, np, f.weights, confidence_factors).val
    ELSE EnvironmentalScore(f.results, np, f.weights).val

\* variant: the normalised weights (in thousandths) are stored back into
\* self.scoring_weights
ThreadAverage_StoresWeights(t) ==
    LET f == frames[t]
    IN  /\ f.pc = "loop"
        /\ f.todo = {}
        /\ frames' = [frames EXCEPT ![t] =
              [f EXCEPT !.pc = "return", !.result = ThreadResult(f)]]
        /\ scoring_weights' =
              [c \in Categories |->
                  IF c \in DOMAIN f.weights
                  THEN (f.weights[c] * 1000)
                          \div np_sum(f.weights, DOMAIN f.weights)
                  ELSE scoring_weights[c]]
        /\ ThreadFrame

\* after the loop: normalisation, average, penalty and clamp, on the
\* thread's own lists
ThreadAverage(t) ==
    LET f == frames[t]
    IN  /\ f.pc = "loop"
        /\ f.todo = {}
        /\ frames' = [frames EXCEPT ![t] =
              [f EXCEPT !.pc = "return", !.result = ThreadResult(f)]]
        /\ UNCHANGED scoring_weights
        /\ ThreadFrame

\* the call returns: the caller holds the result and the thread is free for
\* its next call
ThreadReturn(t) ==
    /\ frames[t].pc = "return"
    /\ frames' = [frames EXCEPT ![t].pc = "idle"]
    /\ UNCHANGED scoring_weights
    /\ ThreadFrame

ThreadNext ==
    \E t \in Threads :
        \/ ThreadCall(t)
        \/ ThreadLoop(t)
        \/ ThreadAverage(t)
        \/ ThreadReturn(t)

ThreadSpec == ThreadInit /\ [][ThreadNext]_vars

(***************************************************************************)
(* Properties                                                              *)
(***************************************************************************)
\* a result set as the analysis producers promise it: known categories
\* only, each a mapping whose overall_score and confidence, where given,
\* are numbers in [0,1]; the qualitative sub-fields are unconstrained
InUnit(v) == v = Missing \/ (IsNum(v) /\ v[2] >= 0 /\ v[2] <= 100)

ValidResultSet(results) ==
    /\ DOMAIN results \subseteq Categories
    /\ \A c \in DOMAIN results :
          /\ results[c].mapping
          /\ InUnit(results[c].overall_score)
          /\ InUnit(results[c].confidence)

\* C1: for every valid result set calculate_overall_confidence and
\* calculate_environmental_score return a value in [0,1] and
\* _calculate_uncertainty_penalty returns a value in [0,0.3].
C1_ResultsInRange ==
    ValidResultSet(analysis_results) =>
        /\ op \in {"calculate_overall_confidence",
                   "calculate_environmental_score"}
              => (~raised /\ ret >= 0 /\ ret <= ONE)
        /\ op = "_calculate_uncertainty_penalty"
              => (~raised /\ ret >= 0 /\ ret <= 30 * HUNDREDTH)

\* a valid result set of three categories whose penalty is the largest the
\* three increments can give, and one whose average sits on the floor
C1_Witness ==
    /\ ValidResultSet(analysis_results)
    /\ Cardinality(DOMAIN analysis_results) = 3
    /\ \/ op = "_calculate_uncertainty_penalty" /\ ret = 18 * HUNDREDTH
       \/ op = "calculate_overall_confidence" /\ ret = 10 * HUNDREDTH

\* C2: on the empty result set calculate_overall_confidence returns exactly
\* 0.3 and calculate_environmental_score exactly 0.5, and neither raises.
C2_EmptyFallbacks ==
    Present(analysis_results) = {} =>
        /\ op = "calculate_overall_confidence"
              => (ret = 30 * HUNDREDTH /\ ~raised)
        /\ op = "calculate_environmental_score"
              => (ret = 50 * HUNDREDTH /\ ~raised)

C2_Witness ==
    /\ DOMAIN analysis_results = {}
    /\ np = "numpy"
    /\ op = "calculate_overall_confidence"
    /\ ret = 30 * HUNDREDTH

\* C3: whatever the input (valid, empty, out of range or malformed), the
\* value calculate_overall_confidence returns is never below 0.1.
C3_ConfidenceFloor ==
    op = "calculate_overall_confidence" => ret >= 10 * HUNDREDTH

\* the floor binds: the penalised weighted average is below 0.1
C3_Witness ==
    /\ op = "calculate_overall_confidence"
    /\ np = "numpy"
    /\ ret = 10 * HUNDREDTH
    /\ _calculate_uncertainty_penalty(analysis_results).val > 0
    /\ \E c \in DOMAIN analysis_results :
          IsNum(analysis_results[c].confidence)
             /\ analysis_results[c].confidence[2] < 0

\* the static weight of c divided by the sum of the static weights of the
\* categories in cats, in units of 1/27300 (exact for every subset)
EffectiveWeight(c, cats) ==
    (InitialWeights[c] * 27300) \div np_sum(InitialWeights, cats)

SumOver(cats, f(_)) ==
    (IF "water_quality" \in cats THEN f("water_quality") ELSE 0)
  + (IF "air_quality" \in cats THEN f("air_quality") ELSE 0)
  + (IF "visual_contamination" \in cats
        THEN f("visual_contamination") ELSE 0)

\* C4: in both averages each present category is weighted by its static
\* weight divided by the sum of the static weights of the present
\* categories; the effective weights of every non-empty subset sum to 1 and
\* absent categories contribute nothing.
C4_WeightsRenormalised ==
    LET cats == Present(analysis_results)
        eff(c) == EffectiveWeight(c, cats)
        blend(c) == eff(c) * WeightedScore(analysis_results[c])
        adj(c) == eff(c) * 100 * _adjust_confidence_by_quality(
                      ConfidenceOf(analysis_results[c]),
                      analysis_results[c], c).val
        pen == _calculate_uncertainty_penalty(analysis_results).val
    IN  (ValidResultSet(analysis_results) /\ cats # {}) =>
          /\ SumOver(cats, eff) = 27300
          /\ op = "calculate_environmental_score"
                => ret = SumOver(cats, blend)
          /\ op = "calculate_overall_confidence"
                => ret = Max(10 * HUNDREDTH,
                             SumOver(cats, adj) - pen * HUNDREDTH)

\* C5: raising the overall_score of one present category of a valid result
\* set, all else fixed, does not decrease calculate_environmental_score.
C5_ScoreMonotone ==
    op = "raise_score" => ret >= before

\* the raised score moves the environmental score strictly upwards
C5_Witness ==
    /\ op = "raise_score"
    /\ ValidResultSet(analysis_results)
    /\ Cardinality(DOMAIN analysis_results) >= 2
    /\ ret > before

CallOps ==
    {"calculate_overall_confidence", "calculate_environmental_score",
     "_calculate_uncertainty_penalty", "generate_confidence_report"}

\* C6: a call of calculate_overall_confidence, calculate_environmental_score,
\* _calculate_uncertainty_penalty or generate_confidence_report leaves the
\* result set, the weight table and the thresholds unchanged, and a second
\* call in succession returns what the first returned.
C6_Idempotent ==
    [][op' \in CallOps =>
          /\ UNCHANGED <<scoring_weights, confidence_factors,
                         analysis_results>>
          /\ scoring_weights' = InitialWeights
          /\ confidence_factors' = InitialFactors
          /\ op = op' => (ret' = ret /\ raised' = raised
                             /\ report' = report)]_vars

\* a report has been generated for a result set of three categories and the
\* call can be repeated
C6_Witness ==
    /\ op = "generate_confidence_report"
    /\ Cardinality(DOMAIN analysis_results) = 3
    /\ report.keys # {}
    /\ report.recommendations # <<>>
    /\ scoring_weights = InitialWeights
    /\ ENABLED CallConfidenceReport

\* C7: get_confidence_level maps c >= 0.8 to high, 0.6 <= c < 0.8 to medium,
\* 0.4 <= c < 0.6 to low and c < 0.4 to very_low; the boundaries belong to
\* the higher level.
C7_LevelLadder ==
    (op = "get_confidence_level" /\ ~raised) =>
        /\ level = "high" <=> ret >= 80 * HUNDREDTH
        /\ level = "medium" <=>
              (ret >= 60 * HUNDREDTH /\ ret < 80 * HUNDREDTH)
        /\ level = "low" <=> (ret >= 40 * HUNDREDTH /\ ret < 60 * HUNDREDTH)
        /\ level = "very_low" <=> ret < 40 * HUNDREDTH

\* a score that sits exactly on a threshold
C7_Witness ==
    /\ op = "get_confidence_level"
    /\ ~raised
    /\ ret = 40 * HUNDREDTH
    /\ level = "low"

\* the try block of an operation hits an internal failure on its input
InternalFailure(name) ==
    IF name = "calculate_overall_confidence"
    THEN OverallConfidenceTry(analysis_results, np, scoring_weights,
                              confidence_factors).exc
    ELSE EnvironmentalScoreTry(analysis_results, np, scoring_weights).exc

\* C8: whatever the input, calculate_overall_confidence returns a number
\* (0.3 on internal failure), calculate_environmental_score returns a number
\* (0.5 on internal failure) and generate_confidence_report returns a report
\* record; none of them raises.
C8_NeverRaises ==
    /\ op = "calculate_overall_confidence"
          => /\ ~raised
             /\ InternalFailure(op) => ret = 30 * HUNDREDTH
    /\ op = "calculate_environmental_score"
          => /\ ~raised
             /\ InternalFailure(op) => ret = 50 * HUNDREDTH
    /\ op = "generate_confidence_report"
          => /\ ~raised
             /\ {"overall_confidence", "confidence_level",
                 "environmental_score"} \subseteq report.keys

\* a non-numeric confidence makes the final clamp of the adjuster raise
\* inside calculate_overall_confidence, with numpy installed
C8_Witness ==
    /\ op = "calculate_overall_confidence"
    /\ np = "numpy"
    /\ \E c \in Present(analysis_results) :
          /\ analysis_results[c].mapping
          /\ analysis_results[c].confidence = NonNumeric
    /\ ret = 30 * HUNDREDTH
    /\ ~raised

\* the sub-fields the adjuster reads for category c are mappings or absent,
\* and the anomaly score is a number or absent
WellFormedReadings(c, result) ==
    /\ result.mapping
    /\ c = "water_quality" => /\ result.turbidity # "NOT_A_MAPPING"
                              /\ result.color_index # "NOT_A_MAPPING"
    /\ c = "air_quality" => /\ result.visibility # "NOT_A_MAPPING"
                            /\ result.smog_density # "NOT_A_MAPPING"
    /\ c = "visual_contamination"
          => result.texture_anomalies \notin {NotAMapping, NonNumeric}

\* the sum of the adjustments that apply to the record of category c
Delta(c, result) ==
    (IF c = "water_quality" /\ result.turbidity \in {"clear", "highly_turbid"}
        THEN 10 ELSE 0)
  + (IF c = "water_quality" /\ result.color_index = "unclear"
        THEN -15 ELSE 0)
  + (IF c = "air_quality" /\ result.visibility \in {"excellent", "poor"}
        THEN 10 ELSE 0)
  + (IF c = "air_quality" /\ result.smog_density = "none" THEN -5 ELSE 0)
  + (IF c = "visual_contamination" /\ result.detected = "true"
          /\ result.type # "unknown" /\ result.type # "MISSING"
        THEN 10 ELSE 0)
  + (IF c = "visual_contamination"
          /\ (IsNum(result.texture_anomalies)
                 => result.texture_anomalies[2] < 20)
        THEN -10 ELSE 0)

\* C9: on a record with well-formed sub-fields _adjust_confidence_by_quality
\* returns clamp(base + delta, 0.1, 1.0), delta being the sum of the
\* applicable per-category adjustments; the result is in [0.1, 1.0].
C9_AdjustClamped ==
    (/\ op = "_adjust_confidence_by_quality"
     /\ WellFormedReadings(arg, analysis_results[arg])
     /\ IsNum(ConfidenceOf(analysis_results[arg]))) =>
        LET base == ConfidenceOf(analysis_results[arg])[2]
            sum == base + Delta(arg, analysis_results[arg])
        IN  /\ ~raised
            /\ ret >= 10 * HUNDREDTH
            /\ ret <= ONE
            /\ sum < 10 => ret = 10 * HUNDREDTH
            /\ sum > 100 => ret = ONE
            /\ (sum >= 10 /\ sum <= 100) => ret = sum * HUNDREDTH

\* a reduction takes the sum below 0.1 and the clamp lifts it
C9_Witness ==
    /\ op = "_adjust_confidence_by_quality"
    /\ arg = "water_quality"
    /\ analysis_results[arg].color_index = "unclear"
    /\ analysis_results[arg].turbidity = "clear"
    /\ analysis_results[arg].confidence = Num(10)
    /\ ret = 10 * HUNDREDTH

\* C10: when evaluating a heuristic fails for a category, the adjuster
\* falls back to the unadjusted base_confidence of that category: no partial
\* boost or reduction is kept.
C10_FallsBackToBase ==
    (/\ op = "_adjust_confidence_by_quality"
     /\ ~WellFormedReadings(arg, analysis_results[arg])
     /\ IsNum(ConfidenceOf(analysis_results[arg]))) =>
        /\ ~raised
        /\ ret = Min(Max(ConfidenceOf(analysis_results[arg])[2], 10), 100)
                    * HUNDREDTH

\* the increments of the uncertainty penalty, in hundredths, written from
\* the scores and confidences of the present categories: the population
\* variance of the scores is sum((n*s - total)^2) / n^3
ScoreSpread(results) ==
    LET cats == Present(results)
        n == Cardinality(cats)
        s(c) == ScoreOf(results[c])[2]
        total == SumOver(cats, s)
        dev(c) == (n * s(c) - total) * (n * s(c) - total)
    IN  (IF n >= 2 /\ SumOver(cats, dev) > 1000 * n * n * n THEN 10 ELSE 0)
      + (IF n >= 2 /\ \E c, d \in cats : s(c) - s(d) > 60 THEN 5 ELSE 0)

LowConfidences(results) ==
    {c \in Present(results) : ConfidenceOf(results[c])[2] < 40}

\* C11: _calculate_uncertainty_penalty returns min(0.3, a + b + c): a = 0.1
\* when at least two categories are present and the population variance of
\* their scores exceeds 0.1, b = 0.05 when at least two are present and
\* the scores' range exceeds 0.6, c = 0.03 when at least two present
\* categories have a raw confidence strictly below 0.4; with fewer than two
\* categories present the penalty is 0.
C11_PenaltyFormula ==
    LET c3 == IF Cardinality(LowConfidences(analysis_results)) >= 2
              THEN 3 ELSE 0
    IN  (op = "_calculate_uncertainty_penalty"
            /\ ValidResultSet(analysis_results)) =>
          /\ ret = Min(30, ScoreSpread(analysis_results) + c3) * HUNDREDTH
          /\ Cardinality(Present(analysis_results)) < 2 => ret = 0

\* C12: whenever at least two present categories report a raw confidence
\* strictly below 0.4 the penalty is at least 0.03, and exactly 0.03 when
\* the scores trigger neither the variance nor the range increment; a
\* confidence of exactly 0.4 is not counted as low.
C12_LowConfidenceIncrement ==
    LET low == Cardinality(LowConfidences(analysis_results))
        atForty == {c \in Present(analysis_results) :
                      ConfidenceOf(analysis_results[c])[2] = 40}
    IN  (op = "_calculate_uncertainty_penalty"
            /\ ValidResultSet(analysis_results)) =>
          /\ low >= 2 => ret >= 3 * HUNDREDTH
          /\ (low >= 2 /\ ScoreSpread(analysis_results) = 0)
                => ret = 3 * HUNDREDTH
          /\ (low < 2 /\ atForty # {} /\ ScoreSpread(analysis_results) = 0)
                => ret = 0

\* C13: for every non-empty valid result set calculate_overall_confidence
\* returns clamp(max(0.1, S - P), 0, 1), S the renormalised weighted sum of
\* the adjusted confidences and P the uncertainty penalty; with a single
\* category present the result is that category's adjusted confidence.
C13_OverallFormula ==
    LET cats == Present(analysis_results)
        adjusted(c) == _adjust_confidence_by_quality(
                           ConfidenceOf(analysis_results[c]),
                           analysis_results[c], c).val
        weighted(c) == EffectiveWeight(c, cats) * 100 * adjusted(c)
        P == _calculate_uncertainty_penalty(analysis_results).val * HUNDREDTH
        S == SumOver(cats, weighted)
    IN  (op = "calculate_overall_confidence"
            /\ ValidResultSet(analysis_results) /\ cats # {}) =>
          /\ ~raised
          /\ ret = Min(ONE, Max(0, Max(10 * HUNDREDTH, S - P)))
          /\ \A c \in cats : cats = {c} => ret = adjusted(c) * HUNDREDTH

\* C14: for every non-empty valid result set calculate_environmental_score
\* returns the renormalised weighted average of
\* score * confidence + 0.5 * (1 - confidence) over the present categories,
\* with the raw confidence; the uncertainty penalty is never subtracted.
C14_EnvironmentalFormula ==
    LET cats == Present(analysis_results)
        s(c) == ScoreOf(analysis_results[c])[2]
        k(c) == ConfidenceOf(analysis_results[c])[2]
        blended(c) == EffectiveWeight(c, cats)
                         * (s(c) * k(c) + 50 * (100 - k(c)))
    IN  (op = "calculate_environmental_score"
            /\ ValidResultSet(analysis_results) /\ cats # {}) =>
          /\ ~raised
          /\ ret = SumOver(cats, blended)

\* C15: when generate_confidence_report hits an internal failure it does
\* not raise: it returns the degraded outcome with overall_confidence 0.3,
\* confidence_level "low", environmental_score 0.5 and an error marker.
C15_DegradedReport ==
    (op = "generate_confidence_report"
        /\ ConfidenceReportTry(analysis_results, np, scoring_weights,
                               confidence_factors).exc) =>
      /\ ~raised
      /\ report.keys = {"overall_confidence", "confidence_level",
                        "environmental_score", "error"}
      /\ report.overall_confidence = 30 * HUNDREDTH
      /\ report.confidence_level = "low"
      /\ report.environmental_score = 50 * HUNDREDTH
      /\ report.error # "none"

\* a turbidity that is no mapping fails the clarity check of the report
C15_Witness ==
    /\ op = "generate_confidence_report"
    /\ "water_quality" \in DOMAIN analysis_results
    /\ analysis_results["water_quality"].mapping
    /\ analysis_results["water_quality"].turbidity = "NOT_A_MAPPING"
    /\ IsNum(analysis_results["water_quality"].confidence)
    /\ "error" \in report.keys
    /\ report.overall_confidence = 30 * HUNDREDTH
    /\ ~raised

\* the level the threshold ladder assigns to a confidence in units of 1/ONE
LadderLevel(x) ==
    IF x >= 80 * HUNDREDTH THEN "high"
    ELSE IF x >= 60 * HUNDREDTH THEN "medium"
    ELSE IF x >= 40 * HUNDREDTH THEN "low" ELSE "very_low"

\* C16: in every outcome returned by generate_confidence_report, normal or
\* degraded, confidence_level is the level get_confidence_level assigns to
\* that outcome's overall_confidence.
C16_LevelMatchesConfidence ==
    op = "generate_confidence_report" =>
      /\ report.confidence_level = LadderLevel(report.overall_confidence)
      /\ report.confidence_level
            = get_confidence_level(Num(report.overall_confidence)).val

\* a report that carries quality indicators, made for a valid result set
NormalReport ==
    /\ op = "generate_confidence_report"
    /\ ValidResultSet(analysis_results)
    /\ "quality_indicators" \in report.keys

\* C17: in a report for a valid result set data_completeness is the number
\* of present known categories divided by 3, result_consistency is
\* 1 - uncertainty_penalty / 0.3 for the penalty carried in the same
\* report, and all three indicators lie in [0,1].
C17_Indicators ==
    LET q == report.quality_indicators
    IN  NormalReport =>
          /\ q.data_completeness * 3
                = Cardinality(Present(analysis_results)) * ONE
          /\ q.result_consistency
                = (30 - report.uncertainty_penalty) * (ONE \div 30)
          /\ \A i \in {q.data_completeness, q.result_consistency,
                       q.detection_clarity} : 0 <= i /\ i <= ONE

\* two categories whose scores lie far apart: the report carries the
\* penalty 0.15 and a consistency of one half
C17_Witness ==
    /\ NormalReport
    /\ Cardinality(Present(analysis_results)) = 2
    /\ report.uncertainty_penalty = 15
    /\ report.quality_indicators.result_consistency = 50 * HUNDREDTH

\* the water and air readings that are extreme, and a visual type that is
\* given and not "unknown"
ExtremeLevel(c, result) ==
    \/ c = "water_quality" /\ result.turbidity \in {"clear", "highly_turbid"}
    \/ c = "air_quality" /\ result.visibility \in {"excellent", "poor"}

KnownType(result) == result.type # "MISSING" /\ result.type # "unknown"

\* detection_clarity is the share of the present categories in clear, and
\* 0.5 when none is present
ClarityIs(clear) ==
    LET n == Cardinality(Present(analysis_results))
        q == report.quality_indicators
    IN  /\ n > 0 => q.detection_clarity * n = Cardinality(clear) * ONE
        /\ n = 0 => q.detection_clarity = 50 * HUNDREDTH

\* C18 (as stated): detection_clarity is the number of present categories
\* whose reading is unambiguous by the rule that grants the +0.10 boost
\* (water turbidity clear or highly_turbid, air visibility excellent or
\* poor, visual detected true and type not "unknown") divided by the number
\* of present categories, and 0.5 when none is present.
C18_ClarityByBoostRule ==
    NormalReport =>
      ClarityIs({c \in Present(analysis_results) :
                   \/ ExtremeLevel(c, analysis_results[c])
                   \/ /\ c = "visual_contamination"
                      /\ analysis_results[c].detected = "true"
                      /\ KnownType(analysis_results[c])})

\* C18 (amended): the same quotient, where a visual reading is unambiguous
\* as soon as its type is given and not "unknown", whether or not detected
\* is true.
C18_ClarityByType ==
    NormalReport =>
      ClarityIs({c \in Present(analysis_results) :
                   \/ ExtremeLevel(c, analysis_results[c])
                   \/ /\ c = "visual_contamination"
                      /\ KnownType(analysis_results[c])})

\* the visual analyser's result alone: nothing detected, type "none", and
\* a detection_clarity of 1
C18_Witness ==
    /\ NormalReport
    /\ analysis_results
          = ResultSet(Absent, Absent,
                      AnalyzerRecord("visual_contamination", Num(70)))
    /\ analysis_results["visual_contamination"].detected = "false"
    /\ report.quality_indicators.detection_clarity = ONE

\* the five messages in the order of their conditions
Messages ==
    <<"Low confidence detected - consider additional data sources",
      "Incomplete analysis - some environmental factors not assessed",
      "Inconsistent results detected - manual verification recommended",
      "Unclear detection results - image quality may be insufficient",
      "High confidence analysis - results are reliable">>

\* the i-th condition, on the values the report carries
ConditionHolds(i) ==
    LET q == report.quality_indicators
    IN  IF i = 1 THEN report.overall_confidence < 40 * HUNDREDTH
        ELSE IF i = 2 THEN q.data_completeness < 80 * HUNDREDTH
        ELSE IF i = 3 THEN q.result_consistency < 60 * HUNDREDTH
        ELSE IF i = 4 THEN q.detection_clarity < 50 * HUNDREDTH
        ELSE report.overall_confidence > 80 * HUNDREDTH

\* C19: the recommendations are made from five independent conditions
\* (overall_confidence < 0.4, data_completeness < 0.8, result_consistency
\* < 0.6, detection_clarity < 0.5, overall_confidence > 0.8): the message of
\* a condition is present exactly when the condition holds, the messages
\* keep this order, and none appears twice.
C19_Recommendations ==
    LET rec == report.recommendations
    IN  (op = "generate_confidence_report"
            /\ "recommendations" \in report.keys) =>
          /\ \A i \in 1..5 :
                (\E j \in DOMAIN rec : rec[j] = Messages[i])
                   <=> ConditionHolds(i)
          /\ \A j \in DOMAIN rec : \E i \in 1..5 : rec[j] = Messages[i]
          /\ \A j, k \in DOMAIN rec :
                j < k => \E a, b \in 1..5 :
                            a < b /\ rec[j] = Messages[a]
                                  /\ rec[k] = Messages[b]

\* a report with three messages: low confidence, incomplete, unclear
C19_Witness ==
    /\ op = "generate_confidence_report"
    /\ "recommendations" \in report.keys
    /\ report.recommendations = <<Messages[1], Messages[2], Messages[4]>>
    /\ ConditionHolds(1) /\ ConditionHolds(2) /\ ConditionHolds(4)

\* C20: for a result set holding only visual_contamination (overall_score
\* 0.8, confidence 0.7, detected false, type "none") data_completeness is
\* 1/3 and the recommendations include the incomplete-analysis message; in
\* general that message is present exactly when fewer than three known
\* categories are present.
C20_IncompleteAnalysis ==
    LET rec == report.recommendations
        incomplete == \E j \in DOMAIN rec : rec[j] = Messages[2]
    IN  NormalReport =>
          /\ incomplete <=> Cardinality(Present(analysis_results)) < 3
          /\ analysis_results
                = ResultSet(Absent, Absent,
                            AnalyzerRecord("visual_contamination", Num(70)))
                => /\ report.quality_indicators.data_completeness * 3 = ONE
                   /\ incomplete

\* the report of the visual analyser's result alone
C20_Witness ==
    /\ NormalReport
    /\ DOMAIN analysis_results = {"visual_contamination"}
    /\ analysis_results["visual_contamination"].overall_score = Num(80)
    /\ analysis_results["visual_contamination"].confidence = Num(70)
    /\ analysis_results["visual_contamination"].detected = "false"
    /\ analysis_results["visual_contamination"].type = "none"
    /\ report.quality_indicators.data_completeness = ONE \div 3
    /\ \E j \in DOMAIN report.recommendations :
          report.recommendations[j] = Messages[2]

\* two categories, both with overall_score 0.5, with confidences 0.9, 0.1
SameScorePair(results) ==
    /\ Cardinality(DOMAIN results) = 2
    /\ \A c \in DOMAIN results : results[c].overall_score = Num(50)
    /\ {results[c].confidence : c \in DOMAIN results} = {Num(90), Num(10)}

\* the unweighted average of the raw overall_scores, in units of 1/ONE
NaiveAverage(results) ==
    LET s(c) == ScoreOf(results[c])[2]
    IN  (SumOver(DOMAIN results, s) * HUNDREDTH)
           \div Cardinality(DOMAIN results)

\* C21 (as stated): for two categories with overall_score 0.5 and
\* confidences 0.9 and 0.1, calculate_environmental_score is close to 0.5
\* and differs from the unweighted average of the two raw scores.
C21_DiffersFromNaive ==
    (op = "calculate_environmental_score"
        /\ SameScorePair(analysis_results)) =>
      /\ ret >= 45 * HUNDREDTH /\ ret <= 55 * HUNDREDTH
      /\ ret # NaiveAverage(analysis_results)

\* C21 (amended): for these two categories the environmental score is
\* exactly 0.5, which is also the unweighted average of the raw scores.
C21_EqualsNaive ==
    (op = "calculate_environmental_score"
        /\ SameScorePair(analysis_results)) =>
      /\ ret = 50 * HUNDREDTH
      /\ ret = NaiveAverage(analysis_results)

\* the score of the pair, computed with numpy
C21_Witness ==
    /\ op = "calculate_environmental_score"
    /\ np = "numpy"
    /\ SameScorePair(analysis_results)
    /\ ret = 50 * HUNDREDTH

\* the scores 0.75, 0.65, 0.40 and confidences 0.8, 0.65, 0.65
FixtureScores(results) ==
    /\ DOMAIN results = Categories
    /\ results["water_quality"].overall_score = Num(75)
    /\ results["water_quality"].confidence = Num(80)
    /\ results["air_quality"].overall_score = Num(65)
    /\ results["air_quality"].confidence = Num(65)
    /\ results["visual_contamination"].overall_score = Num(40)
    /\ results["visual_contamination"].confidence = Num(65)

\* C22: with scores 0.75, 0.65, 0.40 and confidences 0.8, 0.65, 0.65,
\* whatever the qualitative readings, calculate_environmental_score and
\* calculate_overall_confidence are strictly between 0.4 and 0.8 and the
\* level of the overall confidence is medium or low.
C22_FixtureRanges ==
    FixtureScores(analysis_results) =>
      /\ op \in {"calculate_environmental_score",
                 "calculate_overall_confidence"}
            => (ret > 40 * HUNDREDTH /\ ret < 80 * HUNDREDTH)
      /\ (op = "get_confidence_level" /\ arg = "overall")
            => level \in {"medium", "low"}

\* some qualitative sub-field the clarity check reads is no mapping
MalformedClarityField(results) ==
    \/ /\ "water_quality" \in DOMAIN results
       /\ results["water_quality"].turbidity = "NOT_A_MAPPING"
    \/ /\ "air_quality" \in DOMAIN results
       /\ results["air_quality"].visibility = "NOT_A_MAPPING"

\* C23: when the clarity check of generate_confidence_report meets a
\* malformed qualitative sub-field, the failure is recovered locally: the
\* report still carries the normally computed overall_confidence,
\* environmental_score, quality_indicators and recommendations and is not
\* the degraded outcome.
C23_ClarityRecovered ==
    (op = "generate_confidence_report"
        /\ ValidResultSet(analysis_results)
        /\ MalformedClarityField(analysis_results)) =>
      /\ "error" \notin report.keys
      /\ {"quality_indicators", "recommendations"} \subseteq report.keys
      /\ report.overall_confidence
            = calculate_overall_confidence(analysis_results).val
      /\ report.environmental_score
            = calculate_environmental_score(analysis_results).val

\* the result set with every missing overall_score and confidence written
\* out as 0.5
WithDefaults(results) ==
    [c \in DOMAIN results |->
        [results[c] EXCEPT
            !.overall_score = IF @ = Missing THEN Num(50) ELSE @,
            !.confidence = IF @ = Missing THEN Num(50) ELSE @]]

SomeFieldMissing(results) ==
    \E c \in DOMAIN results :
        /\ results[c].mapping
        /\ Missing \in {results[c].overall_score, results[c].confidence}

\* C24: a present record that lacks confidence is treated as confidence
\* 0.5 and one that lacks overall_score as score 0.5 by every consumer: the
\* overall confidence, the environmental score, the penalty and the
\* per-category breakdown of the report are those of the result set with
\* 0.5 written in.
C24_MissingFieldDefaults ==
    LET filled == WithDefaults(analysis_results)
    IN  /\ op = "calculate_overall_confidence"
              => ret = calculate_overall_confidence(filled).val
        /\ op = "calculate_environmental_score"
              => ret = calculate_environmental_score(filled).val
        /\ op = "_calculate_uncertainty_penalty"
              => ret = _calculate_uncertainty_penalty(filled).val * HUNDREDTH
        /\ op = "generate_confidence_report"
              => /\ report = generate_confidence_report(filled).val
                 /\ \A c \in DOMAIN report.individual_confidences :
                       analysis_results[c].confidence = Missing
                          => report.individual_confidences[c].confidence = 50

\* a record without confidence next to one with a low confidence: with the
\* default 0.5 only one confidence is low and no penalty is due
C24_Witness ==
    /\ op = "_calculate_uncertainty_penalty"
    /\ np = "numpy"
    /\ ValidResultSet(analysis_results)
    /\ SomeFieldMissing(analysis_results)
    /\ Cardinality(DOMAIN analysis_results) = 2
    /\ \E c \in DOMAIN analysis_results :
          analysis_results[c].confidence = Num(35)
    /\ \E c \in DOMAIN analysis_results :
          analysis_results[c].confidence = Missing
    /\ ret = 0

\* the population variance of the present scores exceeds 0.1; their range
\* exceeds 0.6
VarianceExceeds(results) ==
    LET cats == Present(results)
        n == Cardinality(cats)
        s(c) == ScoreOf(results[c])[2]
        total == SumOver(cats, s)
        dev(c) == (n * s(c) - total) * (n * s(c) - total)
    IN  SumOver(cats, dev) > 1000 * n * n * n

RangeExceeds(results) ==
    \E c, d \in Present(results) :
        ScoreOf(results[c])[2] - ScoreOf(results[d])[2] > 60

Recommends(i) ==
    \E j \in DOMAIN report.recommendations :
        report.recommendations[j] = Messages[i]

\* C28: in every non-degraded report the low-confidence recommendation is
\* present exactly when confidence_level is very_low, the high-confidence
\* recommendation only when confidence_level is high, and never both.
C28_RecommendationsAndLevel ==
    (op = "generate_confidence_report" /\ "error" \notin report.keys) =>
      /\ Recommends(1) <=> report.confidence_level = "very_low"
      /\ Recommends(5) => report.confidence_level = "high"
      /\ ~(Recommends(1) /\ Recommends(5))

\* an overall confidence of exactly 0.4: level low, no low-confidence
\* recommendation
C28_Witness ==
    /\ op = "generate_confidence_report"
    /\ "error" \notin report.keys
    /\ report.overall_confidence = 40 * HUNDREDTH
    /\ report.confidence_level = "low"
    /\ ~Recommends(1)

\* C30: for a non-empty result set the scorer computes the same overall
\* confidence, environmental score and uncertainty penalty with the
\* MockNumpy fallback as with numpy.
C30_MockNumpyEquivalent ==
    Present(analysis_results) # {} =>
      /\ op = "calculate_overall_confidence"
            => ret = OverallConfidence(analysis_results, "numpy",
                         scoring_weights, confidence_factors).val
      /\ op = "calculate_environmental_score"
            => ret = EnvironmentalScore(analysis_results, "numpy",
                         scoring_weights).val
      /\ op = "_calculate_uncertainty_penalty"
            => ret = UncertaintyPenalty(analysis_results, "numpy",
                         scoring_weights, confidence_factors).val * HUNDREDTH

\* the calls of the analysers and of the scorer
AnalysisCalls == {"analyze_" \o c : c \in Categories}

ScoringCalls ==
    {"calculate_overall_confidence", "calculate_environmental_score"}

Called(names) == {i \in DOMAIN calls : calls[i] \in names}

\* C25: in the /analyze handler the analysers and the scorer run only
\* after validation has returned valid and the image has been acquired; a
\* validation failure ends the request with validation_failed (400) and an
\* acquisition failure with processing_failed (400), both before any
\* analysis or scoring call; scoring follows all requested analyses.
C25_HandlerOrder ==
    /\ Called(AnalysisCalls \cup ScoringCalls) # {}
          => /\ validate_image_request(request).valid
             /\ image_data = "image"
             /\ \A i \in Called(AnalysisCalls \cup ScoringCalls) :
                   /\ \E j \in Called({"validate_image_request"}) : j < i
                   /\ \E j \in Called({"download_and_preprocess"}) : j < i
    /\ (pc = "done" /\ ~validate_image_request(request).valid
           /\ ~validate_image_request(request).exc)
          => /\ response.status = "validation_failed"
             /\ response.http = 400
             /\ Called(AnalysisCalls \cup ScoringCalls) = {}
    /\ (pc = "done" /\ image_data = "none")
          => /\ response.status = "processing_failed"
             /\ response.http = 400
             /\ Called(AnalysisCalls \cup ScoringCalls) = {}
    /\ Called(ScoringCalls) # {}
          => /\ \A i \in Called(AnalysisCalls), j \in Called(ScoringCalls) :
                   i < j
             /\ \A c \in RequestedTypes(request) :
                   Called({"analyze_" \o c}) # {}

\* a request for two analyses that was answered with success
C25_Witness ==
    /\ pc = "done"
    /\ response.status = "success"
    /\ Cardinality(Called(AnalysisCalls)) = 2
    /\ Cardinality(Called(ScoringCalls)) = 2

\* C29: for every request that validate_image_request accepts and whose
\* image is acquired, the result set handed to the scorer has as keys
\* exactly the requested analysis types (all three when analysis_types is
\* left out): it is never empty and holds no unknown category, so the
\* scorer's empty-input fallbacks cannot be reached from /analyze.
C29_ResultSetKeys ==
    Called(ScoringCalls) # {} =>
      /\ DOMAIN analysis_results = RequestedTypes(request)
      /\ ~request.analysis_types.given => DOMAIN analysis_results = Categories
      /\ DOMAIN analysis_results # {}
      /\ DOMAIN analysis_results \subseteq Categories
      /\ Present(analysis_results) # {}

\* a request that names two types, in an order of its own, being scored
C29_Witness ==
    /\ Called(ScoringCalls) # {}
    /\ request.analysis_types.items = <<"visual_contamination", "water_quality">>
    /\ DOMAIN analysis_results = {"water_quality", "visual_contamination"}

\* the value a call returns when it runs alone on a fresh scorer
Alone(name, results) ==
    IF name = "calculate_overall_confidence"
    THEN OverallConfidence(results, np, InitialWeights, InitialFactors).val
    ELSE EnvironmentalScore(results, np, InitialWeights).val

\* C26: concurrent calls of the scorer's operations on the one shared
\* ConfidenceScorer, under any interleaving, each return the value the same
\* call returns when run alone; no operation writes scoring_weights or
\* confidence_factors.
C26_ThreadsIndependent ==
    /\ scoring_weights = InitialWeights
    /\ confidence_factors = InitialFactors
    /\ \A t \in Threads :
          (frames[t].pc \in {"return", "idle"} /\ frames[t].name # "none")
             => frames[t].result = Alone(frames[t].name, frames[t].results)

\* a call returns while another thread is in the middle of its loop, after
\* the first thread has collected and normalised other weights
C26_Witness ==
    \E t, u \in Threads :
        /\ frames[t].pc = "return"
        /\ frames[u].pc = "loop"
        /\ frames[u].todo = {"visual_contamination"}
        /\ DOMAIN frames[t].results # DOMAIN frames[u].results
        /\ frames[t].result = Alone(frames[t].name, frames[t].results)
        /\ np = "numpy"


====
